---- MODULE Spec2Model ----
(***************************************************************************)
(* State-machine model of sqnice::pool (src/src/pool.cc,                   *)
(* src/include/sqnice/pool.hh): a thread-safe pool of SQLite connections.  *)
(*                                                                         *)
(* Every public method of the pool takes the pool's mutex for its whole    *)
(* body, so a call is one atomic action, except where it waits on the      *)
(* condition variable.  Any number of threads may call; the threads are    *)
(* interchangeable, so the model keeps, for each of the three places a     *)
(* call can wait ("ro": borrow, "rw": borrow_writeable, "close":           *)
(* close_all), how many calls are blocked there (`waiting`) and how many   *)
(* have been woken and have not yet re-acquired the mutex (`notified`).    *)
(*                                                                         *)
(* Connections are heap objects: `alive` is the set of connections not     *)
(* yet destroyed, a new one takes the lowest free identity (an address).   *)
(* A borrowed handle (std::unique_ptr<database, pool&>) is an entry in the *)
(* bag out_ro / out_rw of the connection it points to.                     *)
(***************************************************************************)
EXTENDS Integers, Sequences, FiniteSets, Bags, TLC

\* ---------------------------------------------------------------- bounds
\* calls blocked on the condition variable at the same time
MaxWaiting == 1
\* connections open at the same time (the process's limit on open files)
MaxLive == 3
\* largest argument tried for set_capacity
MaxCap == 3
\* deepest nesting of transactions on the writeable connection
MaxDepth == 2

\* arguments tried for set_capacity (1 is the rejected one)
CapInputs == 1..MaxCap

\* ------------------------------------------------------ program constants
\* unsigned _ro_capacity = 4 (public capacity defaults to 5)
DefaultRoCapacity == 4
\* the null pointer
None == 0

\* identities of connections: enough for MaxLive connections, and for as
\* many read-only ones as the default capacity allows
ConnIds == 1..(IF MaxLive >= DefaultRoCapacity THEN MaxLive
               ELSE DefaultRoCapacity)

\* open_flags tried as the constructor's argument
FlagInputs ==
    { {"readwrite", "create"},
      {"readwrite", "delete_first"},
      {},
      {"memory"},
      {"temporary"},
      {"readwrite", "create", "memory"},
      {"create"} }

\* paths tried as the constructor's argument: empty, and a file's path
DbNames == {"", "db"}

\* an empty std::function
NoInitializer == "none"

\* functions tried as the argument of on_open: two callbacks and an empty
\* std::function
InitializerInputs == {"f", "g", NoInitializer}

\* normalize(flags): memory implies temporary; temporary implies readwrite and
\* create and drops delete_first; otherwise delete_first implies create
Normalize(f) ==
    LET m == IF "memory" \in f THEN f \cup {"temporary"} ELSE f
    IN  IF "temporary" \in m
        THEN (m \cup {"readwrite", "create"}) \ {"delete_first"}
        ELSE IF "delete_first" \in m THEN m \cup {"create"} ELSE m

\* normalize(flags) throws std::invalid_argument: without temporary,
\* delete_first and create each require readwrite
NormalizeThrows(f) ==
    /\ "memory" \notin f
    /\ "temporary" \notin f
    /\ \/ ("delete_first" \in f /\ "readwrite" \notin f)
       \/ ("create" \in f /\ "readwrite" \notin f)

\* mutant: the constructor tests the flags it was given, not the normalized
\* ones
PoolThrowsUnnormalized(f) == NormalizeThrows(f) \/ "temporary" \in f

\* pool::pool throws std::invalid_argument: normalize does, or
\* `_flags & open_flags::temporary` is set after it
PoolThrows(f) == NormalizeThrows(f) \/ "temporary" \in Normalize(f)

\* pool::_flags of the pools that can be constructed
PoolFlagChoices ==
    { Normalize(f) : f \in { g \in FlagInputs : ~PoolThrows(g) } }

\* the places where a call waits on _cond: in borrow, in borrow_writeable,
\* in close_all, and in the borrow_writeable made by transaction::begin(pool)
WaitPlaces == {"ro", "rw", "close", "txn"}

\* no transaction object: what `transaction::transaction() = default` and a
\* destroyed transaction leave
NoTransaction == [pc |-> "none", db |-> None, from_pool |-> FALSE, local |-> None]

VARIABLES
    dbname,         \* pool::_dbname
    flags,          \* pool::_flags (of a rejected construction: its argument)
    ro_capacity,    \* pool::_ro_capacity
    ro_total,       \* pool::_ro_total
    rw_total,       \* pool::_rw_total
    readonly,       \* pool::_readonly, a vector used as a stack (back = last)
    readwrite,      \* pool::_readwrite, None or the idle writeable connection
    alive,          \* database objects constructed and not yet destroyed
    writeable,      \* the alive connections whose is_writeable() is true
    out_ro,         \* bag of connections held by borrowed_database handles
    out_rw,         \* bag of connections held by borrowed_writeable_database
    waiting,        \* per place: calls blocked in _cond.wait, not yet woken
    notified,       \* per place: calls woken that have not yet resumed
    last,           \* the most recently completed call and its outcome
    hi_capacity,    \* history: the largest _ro_capacity in effect since the
                    \* first connection was opened, 0 before that
    lowered,        \* history: a set_capacity lowered the capacity and every
                    \* call completed since then was the return of a handle
    rw_source,      \* history: how the writeable connection handed out most
                    \* recently was obtained ("none": none was handed out
                    \* yet), kept by the *Tracked actions only
    txn,            \* a sqnice::transaction begun on the pool: its place in
                    \* begin(pool), its fields db_ and from_pool_, and the
                    \* local handle `db` of begin(pool)
    txn_depth,      \* database::txn_depth_ of the writeable connection, 0
                    \* when there is none
    initializer,    \* pool::_initializer
    inits           \* history: for each identity, the callbacks invoked on
                    \* the connection last created with it, in order

vars == << dbname, flags, ro_capacity, ro_total, rw_total, readonly,
           readwrite, alive,
           writeable, out_ro, out_rw, waiting, notified, last, hi_capacity,
           lowered, rw_source, txn, txn_depth, initializer, inits >>

\* ---------------------------------------------------------- pure helpers
Max(a, b) == IF a >= b THEN a ELSE b

Min(a, b) == IF a <= b THEN a ELSE b

SeqToSet(s) == { s[i] : i \in 1..Len(s) }

\* ------------------------------------------------- 32-bit `unsigned`, `int`
\* The largest and the smallest `int`.  An `unsigned` u is held as the
\* integer that has the same 32 bits in two's complement: u itself below
\* 2^31, and u - 2^32 from 2^31 on (UINT_MAX is held as -1).  The counts of
\* the model are all small, so only a capacity is ever held as a negative
\* number.
IntMax == 2147483647

IntMin == -IntMax - 1

\* a < b between two `unsigned` values
ULess(a, b) == IF (a < 0) = (b < 0) THEN a < b ELSE b < 0

\* a <= b between two `unsigned` values
ULessEq(a, b) == a = b \/ ULess(a, b)

\* the larger of two `unsigned` values
UMax(a, b) == IF ULess(a, b) THEN b ELSE a

\* int(u), u `unsigned`: the value with the same bits.  Below 2^31 it is u;
\* from 2^31 on it is u - 2^32, that is the smallest `int` plus what u has
\* above 2^31
ToInt(u) == IF ULess(IntMax, u) THEN IntMin + (u - IntMin) ELSE u

\* pool::_borrowed_count
BorrowedCount ==
    (ro_total - Len(readonly)) + (rw_total - (IF readwrite # None THEN 1 ELSE 0))

\* pool::open_count / pool::_open_count
OpenCount == ro_total + rw_total

\* pool::capacity
Capacity == ro_capacity + 1

\* set_capacity(): the subtraction `int(_ro_capacity) - int(_ro_total -
\* _readonly.size())` overflows `int`, which is undefined behaviour
KeepOverflows(capacity, total, size) ==
    ToInt(capacity) < IntMin + (total - size)

\* set_capacity(): `std::max(0, int(_ro_capacity) - int(_ro_total -
\* _readonly.size()))`, a signed computation
Keep(capacity, total, size) ==
    Max(0, ToInt(capacity) - (total - size))

\* the values `keep` may have: the one computed, or, after an overflow,
\* any (each leaves between none and all of the `size` idle connections)
KeepOutcomes(capacity, total, size) ==
    IF KeepOverflows(capacity, total, size)
    THEN 0..size
    ELSE {Keep(capacity, total, size)}

\* number of calls inside _cond.wait
Blocked(k) == waiting[k] + notified[k]

NumBlocked ==
    Blocked("ro") + Blocked("rw") + Blocked("close") + Blocked("txn")

\* _cond.notify_all()
NotifyAll ==
    /\ notified' = [k \in WaitPlaces |-> notified[k] + waiting[k]]
    /\ waiting' = [k \in WaitPlaces |-> 0]

\* a call that entered at `from` ("run": a new call, or one of WaitPlaces: a
\* woken call) goes on at `to` ("run": it returns, or a place, where it waits)
Move(from, to) ==
    /\ notified' = IF from = "run" THEN notified
                   ELSE [notified EXCEPT ![from] = @ - 1]
    /\ waiting' = IF to = "run" THEN waiting
                  ELSE [waiting EXCEPT ![to] = @ + 1]

\* the call returns (or throws) with outcome res
Done(from, op, res) ==
    /\ Move(from, "run")
    /\ last' = << op, res >>
    /\ lowered' = (op = "set_capacity" /\ res = "ok"
                      /\ ULess(ro_capacity', ro_capacity))

\* the call waits on _cond at place k; a new call may start to wait while
\* fewer than MaxWaiting calls are blocked
Wait(from, k) ==
    /\ from = "run" => NumBlocked < MaxWaiting
    /\ Move(from, k)
    /\ UNCHANGED << last, lowered >>

\* ------------------------------------------------------------------ Init
\* mutant: the constructor opens a first read-only connection
EmptyOpensOne ==
    /\ ro_total = 1
    /\ rw_total = 0
    /\ readonly = << 1 >>
    /\ readwrite = None
    /\ alive = {1}
    /\ writeable = {}
    /\ out_ro = EmptyBag
    /\ out_rw = EmptyBag
    /\ waiting = [k \in WaitPlaces |-> 0]
    /\ notified = [k \in WaitPlaces |-> 0]
    /\ hi_capacity = 0
    /\ lowered = FALSE
    /\ rw_source = "none"
    /\ txn = NoTransaction
    /\ txn_depth = 0
    /\ initializer = NoInitializer
    /\ inits = [c \in ConnIds |-> << >>]

\* pool::pool: no connection is opened, nothing is borrowed
Empty ==
    /\ ro_total = 0
    /\ rw_total = 0
    /\ readonly = << >>
    /\ readwrite = None
    /\ alive = {}
    /\ writeable = {}
    /\ out_ro = EmptyBag
    /\ out_rw = EmptyBag
    /\ waiting = [k \in WaitPlaces |-> 0]
    /\ notified = [k \in WaitPlaces |-> 0]
    /\ hi_capacity = 0
    /\ lowered = FALSE
    /\ rw_source = "none"
    /\ txn = NoTransaction
    /\ txn_depth = 0
    /\ initializer = NoInitializer
    /\ inits = [c \in ConnIds |-> << >>]

\* a pool just constructed: pool::pool keeps the path as it is and the
\* normalized flags
Fresh ==
    /\ dbname \in DbNames
    /\ flags \in PoolFlagChoices
    /\ Empty

\* the constructor threw: there is no pool, `flags` keeps the argument
Rejected ==
    /\ dbname \in DbNames
    /\ flags \in { f \in FlagInputs : PoolThrows(f) }
    /\ Empty
    /\ ro_capacity = DefaultRoCapacity
    /\ last = << "pool", "invalid_argument" >>

\* the state after construction
Init ==
    \/ /\ Fresh
       /\ ro_capacity = DefaultRoCapacity
       /\ last = << "pool", "ok" >>
    \/ Rejected

\* there is a pool to call: its constructor returned
Constructed == last # << "pool", "invalid_argument" >>

\* the state after construction, or after construction and one accepted
\* set_capacity(n) on the still empty pool
InitConfigured ==
    /\ Fresh
    /\ \E n \in (CapInputs \ {1}) \cup {DefaultRoCapacity + 1} :
          /\ ro_capacity = n - 1
          /\ last = IF n = DefaultRoCapacity + 1 THEN << "pool", "ok" >>
                    ELSE << "set_capacity", "ok" >>

\* ---------------------------------------------------------------- new_db
\* the flags pool::new_db passes to the database constructor
NewDbFlags(wr) == IF wr THEN flags ELSE flags \ {"readwrite", "create"}

\* outcomes of the open inside new_db an environment may produce: with
\* MaxLive connections open (the process's limit) every further open fails
OpenOutcomes == IF Cardinality(alive) < MaxLive THEN BOOLEAN ELSE {FALSE}

\* database::open: `if (dbname_.empty()) throw std::invalid_argument(...)`
\* for a database that is not temporary
EmptyFilename(f) == "temporary" \notin Normalize(f) /\ dbname = ""

\* pool::new_db throws: in database::open normalize rejects the flags, the
\* filename is empty, or the open fails
NewDbThrows(wr, ok) ==
    \/ NormalizeThrows(NewDbFlags(wr))
    \/ EmptyFilename(NewDbFlags(wr))
    \/ ~ok

\* what pool::new_db throws: std::invalid_argument from database::open when
\* normalize rejects the flags or the filename is empty, else the
\* database_error of the failed open
NewDbException(wr) ==
    IF NormalizeThrows(NewDbFlags(wr)) \/ EmptyFilename(NewDbFlags(wr))
    THEN "invalid_argument"
    ELSE "error"

\* the outcomes that are an exception of new_db
Throws == {"invalid_argument", "error"}

\* mutant: the try_ variants catch the exception and return an empty handle
ThrownOutcomeSwallowed(or_wait, exception) ==
    IF or_wait THEN exception ELSE "empty"

\* borrow(or_wait) and borrow_writeable(or_wait) have no handler around
\* new_db: its exception leaves the call, whatever or_wait is
ThrownOutcome(or_wait, exception) == exception

\* the object a successful new_db returns
NewDb == CHOOSE c \in ConnIds \ alive : \A d \in ConnIds \ alive : c <= d

\* the history of a destroyed connection goes with it: what `inits` keeps
\* when the connections in `live` are the ones left
Forget(history, live) ==
    [c \in ConnIds |-> IF c \in live THEN history[c] ELSE << >>]

\* new_db(): `if (_initializer) _initializer(*db);`
Initialized == IF initializer = NoInitializer THEN << >> ELSE << initializer >>

\* mutant: new_db returns the connection without calling the initializer
NewDbEffectUninitialized(keep, is_wr) ==
    /\ flags' = flags \ {"delete_first"}
    /\ dbname' = dbname
    /\ initializer' = initializer
    /\ inits' = IF keep THEN [inits EXCEPT ![NewDb] = << >>] ELSE inits
    /\ hi_capacity' = IF hi_capacity = 0 THEN ro_capacity ELSE hi_capacity
    /\ alive' = IF keep THEN alive \cup {NewDb} ELSE alive
    /\ writeable' = IF keep /\ is_wr THEN writeable \cup {NewDb} ELSE writeable

\* effect of a successful pool::new_db on _flags and the heap; `keep` tells
\* whether the caller keeps the object or destroys it before returning
NewDbEffect(keep, is_wr) ==
    /\ flags' = flags \ {"delete_first"}
    /\ dbname' = dbname
    /\ initializer' = initializer
    /\ inits' = IF keep THEN [inits EXCEPT ![NewDb] = Initialized] ELSE inits
    /\ hi_capacity' = IF hi_capacity = 0 THEN ro_capacity ELSE hi_capacity
    /\ alive' = IF keep THEN alive \cup {NewDb} ELSE alive
    /\ writeable' = IF keep /\ is_wr THEN writeable \cup {NewDb} ELSE writeable

NoNewDb ==
    UNCHANGED << dbname, flags, initializer, inits, hi_capacity, alive,
                 writeable >>

\* ---------------------------------------------------------------- borrow
\* borrow(): `!_readonly.empty()`
HasIdle == readonly # << >>

\* mutant: the capacity test is off by one
CanCreateROOffByOne == ro_total <= ro_capacity

\* mutant: the capacity test counts the idle connections only
CanCreateROCountsIdleOnly == Len(readonly) < ro_capacity

\* borrow(): `_ro_total < _ro_capacity`
CanCreateRO == ULess(ro_total, ro_capacity)

\* mutant: the connection idle for longest is handed out
BackIsOldest(s) == s[1]

\* borrow(): `_readonly.back()`
Back(s) == s[Len(s)]

\* mutant: the connection handed out stays in _readonly
PopBackForgotten(s) == s

\* borrow(): `_readonly.pop_back()` after moving out `_readonly.back()`
PopBack(s) == SubSeq(s, 1, Len(s) - 1)

\* one pass of the loop of pool::borrow(or_wait), under the mutex
BorrowBody(from, or_wait, op, ok) ==
    /\ Constructed
    /\ UNCHANGED << ro_capacity, rw_total, readwrite, out_rw, rw_source, txn, txn_depth >>
    /\ IF HasIdle
       THEN /\ readonly' = PopBack(readonly)
            /\ out_ro' = out_ro (+) SetToBag({Back(readonly)})
            /\ Done(from, op, "db")
            /\ NoNewDb
            /\ UNCHANGED ro_total
       ELSE IF CanCreateRO
       THEN IF NewDbThrows(FALSE, ok)
            THEN /\ Done(from, op,
                         ThrownOutcome(or_wait, NewDbException(FALSE)))
                 /\ NoNewDb
                 /\ UNCHANGED << readonly, out_ro, ro_total >>
            ELSE /\ NewDbEffect(TRUE, FALSE)
                 /\ ro_total' = ro_total + 1
                 /\ out_ro' = out_ro (+) SetToBag({NewDb})
                 /\ Done(from, op, "db")
                 /\ UNCHANGED readonly
       ELSE IF ~or_wait
       THEN /\ Done(from, op, "empty")
            /\ NoNewDb
            /\ UNCHANGED << readonly, out_ro, ro_total >>
       ELSE /\ Wait(from, "ro")
            /\ NoNewDb
            /\ UNCHANGED << readonly, out_ro, ro_total >>

\* pool::borrow()
Borrow ==
    \E ok \in OpenOutcomes : BorrowBody("run", TRUE, "borrow", ok)

\* pool::try_borrow()
TryBorrow ==
    \E ok \in OpenOutcomes : BorrowBody("run", FALSE, "try_borrow", ok)

\* pool::borrow(): a woken call returns from `_cond.wait(lock)` and loops
BorrowRetry ==
    /\ notified["ro"] > 0
    /\ \E ok \in OpenOutcomes : BorrowBody("ro", TRUE, "borrow", ok)

\* pool::borrow() where the environment sets no limit of its own on the
\* connections open at a time: any open may succeed or fail
BorrowFreely ==
    \E ok \in BOOLEAN : BorrowBody("run", TRUE, "borrow", ok)

\* pool::try_borrow(), likewise
TryBorrowFreely ==
    \E ok \in BOOLEAN : BorrowBody("run", FALSE, "try_borrow", ok)

\* the woken pool::borrow(), likewise
BorrowRetryFreely ==
    /\ notified["ro"] > 0
    /\ \E ok \in BOOLEAN : BorrowBody("ro", TRUE, "borrow", ok)

\* ------------------------------------------------------ borrow_writeable
\* mutant: the test of the flags is left out
WriteableConfiguredAlways == TRUE

\* borrow_writeable(): `_flags & (readwrite | delete_first)`.  The read is
\* made before the mutex is taken while new_db may clear delete_first under
\* the mutex; readwrite is never cleared, so either order reads the same.
WriteableConfigured == flags \cap {"readwrite", "delete_first"} # {}

\* mutant: a writeable connection is created whenever none is idle
FirstWriteableWhenNoneIdle == readwrite = None

\* borrow_writeable(): `_rw_total == 0`
FirstWriteable == rw_total = 0

\* borrow_writeable(): the predicate of `_cond.wait(lock, ...)`
ReadwriteIdle == readwrite # None

\* where a borrow_writeable made by `op` waits
WriterWaitPlace(op) == IF op = "begin" THEN "txn" ELSE "rw"

\* borrow_writeable(): `_cond.wait(lock, pred); dbp = std::move(_readwrite);`
TakeReadwrite(from, op) ==
    /\ UNCHANGED << ro_capacity, ro_total, rw_total, readonly, out_ro >>
    /\ NoNewDb
    /\ IF ReadwriteIdle
       THEN /\ out_rw' = out_rw (+) SetToBag({readwrite})
            /\ readwrite' = None
            /\ Done(from, op, "db")
       ELSE /\ Wait(from, WriterWaitPlace(op))
            /\ UNCHANGED << out_rw, readwrite >>

\* mutant: _rw_total is incremented before is_writeable() is tested
RwTotalAfterOpenCountsFirst(total, is_wr) == total + 1

\* borrow_writeable(): `if (!dbp->is_writeable()) throw ...; ++_rw_total;`
RwTotalAfterOpen(total, is_wr) == IF is_wr THEN total + 1 ELSE total

\* pool::borrow_writeable(or_wait); ok: the open succeeds, wr: the opened
\* connection reports is_writeable()
BorrowWriteableBody(or_wait, op, ok, wr) ==
    /\ Constructed
    /\ IF ~WriteableConfigured
       THEN /\ Done("run", op, "logic_error")
            /\ NoNewDb
            /\ UNCHANGED << ro_capacity, ro_total, rw_total, readonly, readwrite,
                            out_ro, out_rw >>
       ELSE IF FirstWriteable
       THEN /\ UNCHANGED << ro_capacity, ro_total, readonly, readwrite, out_ro >>
            /\ IF NewDbThrows(TRUE, ok)
               THEN /\ Done("run", op,
                            ThrownOutcome(or_wait, NewDbException(TRUE)))
                    /\ NoNewDb
                    /\ UNCHANGED << rw_total, out_rw >>
               ELSE IF ~wr
               THEN /\ NewDbEffect(FALSE, FALSE)
                    /\ rw_total' = RwTotalAfterOpen(rw_total, FALSE)
                    /\ Done("run", op, "locked")
                    /\ UNCHANGED out_rw
               ELSE /\ NewDbEffect(TRUE, TRUE)
                    /\ rw_total' = RwTotalAfterOpen(rw_total, TRUE)
                    /\ out_rw' = out_rw (+) SetToBag({NewDb})
                    /\ Done("run", op, "db")
       ELSE IF ReadwriteIdle \/ or_wait
       THEN TakeReadwrite("run", op)
       ELSE /\ Done("run", op, "empty")
            /\ NoNewDb
            /\ UNCHANGED << ro_capacity, ro_total, rw_total, readonly, readwrite,
                            out_ro, out_rw >>

\* pool::borrow_writeable()
BorrowWriteable ==
    /\ \E ok \in OpenOutcomes, wr \in BOOLEAN :
          BorrowWriteableBody(TRUE, "borrow_writeable", ok, wr)
    /\ UNCHANGED << rw_source, txn, txn_depth >>

\* pool::try_borrow_writeable()
TryBorrowWriteable ==
    /\ \E ok \in OpenOutcomes, wr \in BOOLEAN :
          BorrowWriteableBody(FALSE, "try_borrow_writeable", ok, wr)
    /\ UNCHANGED << rw_source, txn, txn_depth >>

\* pool::borrow_writeable(): a call is woken inside `_cond.wait(lock, pred)`
\* and tests the predicate again
BorrowWriteableRetry ==
    /\ notified["rw"] > 0
    /\ TakeReadwrite("rw", "borrow_writeable")
    /\ UNCHANGED << rw_source, txn, txn_depth >>

\* a step in which a call obtains a non-empty writeable handle
WriteableHandedOut == BagCardinality(out_rw') > BagCardinality(out_rw)

\* the connection of the writeable handle obtained in this step
HandedOut == CHOOSE c \in ConnIds : CopiesIn(c, out_rw') > CopiesIn(c, out_rw)

\* the history of the writeable connection: a step that hands out a
\* writeable handle either opened a connection or took the idle one
RecordSource ==
    rw_source' = IF ~WriteableHandedOut THEN rw_source
                 ELSE IF alive' = alive THEN "recycled" ELSE "opened"

\* pool::borrow_writeable(), with the history kept
BorrowWriteableTracked ==
    /\ \E ok \in OpenOutcomes, wr \in BOOLEAN :
          BorrowWriteableBody(TRUE, "borrow_writeable", ok, wr)
    /\ RecordSource
    /\ UNCHANGED << txn, txn_depth >>

\* pool::try_borrow_writeable(), with the history kept
TryBorrowWriteableTracked ==
    /\ \E ok \in OpenOutcomes, wr \in BOOLEAN :
          BorrowWriteableBody(FALSE, "try_borrow_writeable", ok, wr)
    /\ RecordSource
    /\ UNCHANGED << txn, txn_depth >>

\* the woken borrow_writeable(), with the history kept
BorrowWriteableRetryTracked ==
    /\ notified["rw"] > 0
    /\ TakeReadwrite("rw", "borrow_writeable")
    /\ RecordSource
    /\ UNCHANGED << txn, txn_depth >>

\* ---------------------------------------------------- the handle deleters
\* mutant: a connection is kept only while the population is below capacity
RecycleBelowCapacity == ro_total < ro_capacity

\* operator()(database const*): `_ro_total <= _ro_capacity`
Recycle == ULessEq(ro_total, ro_capacity)

\* pool::operator()(database const*): a borrowed_database is destroyed
ReturnRO(c) ==
    /\ BagIn(c, out_ro)
    /\ out_ro' = out_ro (-) SetToBag({c})
    /\ last' = << "return", "ok" >>
    /\ UNCHANGED << dbname, flags, initializer, ro_capacity, rw_total,
                    readwrite, writeable,
                    out_rw, hi_capacity, lowered, rw_source, txn, txn_depth >>
    /\ IF Recycle
       THEN /\ readonly' = Append(readonly, c)
            /\ NotifyAll
            /\ UNCHANGED << ro_total, alive >>
       ELSE /\ alive' = alive \ {c}
            /\ ro_total' = ro_total - 1
            /\ UNCHANGED << readonly, waiting, notified >>
    /\ inits' = Forget(inits, alive')

\* pool::operator()(database*): `assert(dbp->transaction_depth() == 0)`.  A
\* build with assertions stops at a failed one; a build without goes on, so
\* the behaviours of the former are those of the model up to the first
\* "assert_failed"
DepthAsserted(depth) == IF depth = 0 THEN "ok" ELSE "assert_failed"

\* pool::operator()(database*) called by `op` on connection c;
\* `_readwrite.reset(dbp)` destroys whatever _readwrite held before
DeleterRW(c, op) ==
    /\ out_rw' = out_rw (-) SetToBag({c})
    /\ readwrite' = c
    /\ alive' = IF readwrite # None /\ readwrite # c
                THEN alive \ {readwrite} ELSE alive
    /\ writeable' = writeable \cap alive'
    /\ inits' = Forget(inits, alive')
    /\ NotifyAll
    /\ last' = << op, DepthAsserted(txn_depth') >>
    /\ UNCHANGED << dbname, flags, initializer, ro_capacity, ro_total, rw_total, readonly,
                    out_ro, hi_capacity, lowered >>

\* a borrowed_writeable_database is destroyed
ReturnRW(c) ==
    /\ BagIn(c, out_rw)
    /\ c \notin {txn.db, txn.local}
    /\ UNCHANGED << rw_source, txn, txn_depth >>
    /\ DeleterRW(c, "return_writeable")

\* ------------------------------------------------- transaction on a pool
\* a call that leaves the pool as it is
PoolUntouched ==
    UNCHANGED << dbname, flags, initializer, inits, ro_capacity, ro_total,
                 rw_total, readonly,
                 readwrite,
                 alive, writeable, out_ro, out_rw, waiting, notified,
                 hi_capacity >>

\* transaction::begin(pool): the handle `db` that borrow_writeable returned
Beginning(t) ==
    IF WriteableHandedOut
    THEN [pc |-> "beginning", db |-> None, from_pool |-> FALSE,
          local |-> HandedOut]
    ELSE t

\* no call on the transaction is in progress (a transaction is used by one
\* thread at a time)
TransactionAtRest == txn.pc # "beginning" /\ Blocked("txn") = 0

\* transaction::transaction(pool&) and transaction::begin(pool&), up to the
\* return of `pool.borrow_writeable()`; an active transaction throws
TransactionBegin ==
    /\ TransactionAtRest
    /\ UNCHANGED << rw_source, txn_depth >>
    /\ IF txn.db # None
       THEN /\ last' = << "begin", "logic_error" >>
            /\ lowered' = FALSE
            /\ PoolUntouched
            /\ UNCHANGED txn
       ELSE /\ \E ok \in OpenOutcomes, wr \in BOOLEAN :
                  BorrowWriteableBody(TRUE, "begin", ok, wr)
            /\ txn' = Beginning(txn)

\* the borrow_writeable made by begin(pool) is woken in its wait
TransactionBeginRetry ==
    /\ notified["txn"] > 0
    /\ TakeReadwrite("txn", "begin")
    /\ txn' = Beginning(txn)
    /\ UNCHANGED << rw_source, txn_depth >>

\* outcomes of database::begin_transaction tried: it succeeds or fails, and
\* at the depth MaxDepth only fails
BeginOutcomes == IF txn_depth < MaxDepth THEN BOOLEAN ELSE {FALSE}

\* database::begin_transaction: `++txn_depth_` when its statements succeed
BeginTransaction(depth, ok) == IF ok THEN depth + 1 ELSE depth

\* database::end_transaction: `--txn_depth_` when its statements succeed; a
\* failed ROLLBACK TO or RELEASE returns before it, a failed COMMIT or
\* ROLLBACK restores it with `++txn_depth_`
EndTransaction(depth, ok) == IF ok THEN depth - 1 ELSE depth

\* transaction::begin(pool&) after the borrow: `begin(*db, ...)` succeeds
\* and the transaction takes the connection over (`db.release()`), or fails
\* and the handle `db` returns the connection as it goes out of scope
TransactionBegun ==
    /\ txn.pc = "beginning"
    /\ UNCHANGED rw_source
    /\ \E ok \in BeginOutcomes :
          /\ txn_depth' = BeginTransaction(txn_depth, ok)
          /\ IF ok
             THEN /\ txn' = [pc |-> "live", db |-> txn.local,
                             from_pool |-> TRUE, local |-> None]
                  /\ last' = << "begin", "ok" >>
                  /\ lowered' = FALSE
                  /\ PoolUntouched
             ELSE /\ DeleterRW(txn.local, "begin_failed")
                  /\ txn' = NoTransaction

\* mutant: end() leaves db_ and from_pool_ set
AfterEndKeepsDb(t) == t

\* transaction::end: `from_pool_ = nullptr; db_ = nullptr;`
AfterEnd(t) == [t EXCEPT !.db = None, !.from_pool = FALSE]

\* transaction::end(commit), which commit() and rollback() call; ok: the
\* statements of end_transaction succeed
TransactionEnd(commit) ==
    /\ txn.pc = "live"
    /\ TransactionAtRest
    /\ UNCHANGED rw_source
    /\ IF txn.db # None
       THEN /\ txn' = AfterEnd(txn)
            /\ \E ok \in BOOLEAN :
                  txn_depth' = EndTransaction(txn_depth, ok)
            /\ IF txn.from_pool
               THEN DeleterRW(txn.db, IF commit THEN "commit" ELSE "rollback")
               ELSE /\ PoolUntouched
                    /\ last' = << IF commit THEN "commit" ELSE "rollback",
                                  "ok" >>
                    /\ lowered' = FALSE
       ELSE /\ last' = IF commit THEN << "commit", "logic_error" >>
                       ELSE << "rollback", "ok" >>
            /\ lowered' = FALSE
            /\ PoolUntouched
            /\ UNCHANGED << txn, txn_depth >>

\* transaction::~transaction; ok: the statements of end_transaction succeed
TransactionDestroy ==
    /\ txn.pc = "live"
    /\ TransactionAtRest
    /\ UNCHANGED rw_source
    /\ txn' = NoTransaction
    /\ IF txn.db # None /\ txn.from_pool
       THEN /\ \E ok \in BOOLEAN :
                  txn_depth' = EndTransaction(txn_depth, ok)
            /\ DeleterRW(txn.db, "~transaction")
       ELSE /\ last' = << "~transaction", "nothing" >>
            /\ lowered' = FALSE
            /\ PoolUntouched
            /\ UNCHANGED txn_depth

\* ------------------------------------------------------------ set_capacity
\* set_capacity(): `while (_readonly.size() > keep) _readonly.pop_back();`
Prune(s, keep) == SubSeq(s, 1, Min(Len(s), keep))

\* set_capacity(): what the loop leaves in _ro_total after it took the
\* size of _readonly from `before` to `after`: it does not touch _ro_total
PrunedTotal(total, before, after) == total

\* mutant: the writeable connection's slot is not taken off
RoCapacityForWhole(newCapacity) == newCapacity

\* set_capacity(): `_ro_capacity = newCapacity - 1` (one below 2^31 is the
\* largest `int`)
RoCapacityFor(newCapacity) ==
    IF newCapacity = IntMin THEN IntMax ELSE newCapacity - 1

\* pool::set_capacity(newCapacity)
SetCapacity(newCapacity) ==
    /\ Constructed
    /\ UNCHANGED << dbname, flags, initializer, rw_total, readwrite,
                    writeable, out_ro, out_rw,
                    rw_source, txn, txn_depth >>
    /\ IF ULess(newCapacity, 2)
       THEN /\ Done("run", "set_capacity", "invalid_argument")
            /\ UNCHANGED << ro_capacity, ro_total, readonly, alive,
                            hi_capacity >>
       ELSE /\ ro_capacity' = RoCapacityFor(newCapacity)
            /\ \E keep \in KeepOutcomes(ro_capacity', ro_total,
                                         Len(readonly)) :
                  readonly' = Prune(readonly, keep)
            /\ ro_total' = PrunedTotal(ro_total, Len(readonly), Len(readonly'))
            /\ alive' = alive \ (SeqToSet(readonly) \ SeqToSet(readonly'))
            /\ hi_capacity' = IF hi_capacity = 0 THEN 0
                               ELSE UMax(hi_capacity, ro_capacity')
            /\ Done("run", "set_capacity", "ok")
    /\ inits' = Forget(inits, alive')

\* ----------------------------------------------------------------- on_open
\* pool::on_open(init): `_initializer = std::move(init)` under the mutex
OnOpen(init) ==
    /\ Constructed
    /\ initializer' = init
    /\ Done("run", "on_open", "ok")
    /\ UNCHANGED << dbname, flags, inits, ro_capacity, ro_total, rw_total,
                    readonly, readwrite, alive, writeable, out_ro, out_rw,
                    hi_capacity, rw_source, txn, txn_depth >>

\* ----------------------------------------------- close_unused, close_all
\* mutant: _rw_total is reset without looking at _readwrite
CloseUnusedBodyResetsWriter ==
    /\ txn_depth' = IF readwrite # None THEN 0 ELSE txn_depth
    /\ ro_total' = ro_total - Len(readonly)
    /\ readonly' = << >>
    /\ readwrite' = None
    /\ rw_total' = 0
    /\ alive' = (alive \ SeqToSet(readonly)) \ {readwrite}
    /\ writeable' = writeable \ {readwrite}
    /\ inits' = Forget(inits, alive')

\* mutant: _rw_total is reset while the idle writeable connection is kept
CloseUnusedBodyKeepsWriter ==
    /\ UNCHANGED txn_depth
    /\ ro_total' = ro_total - Len(readonly)
    /\ readonly' = << >>
    /\ rw_total' = IF readwrite # None THEN 0 ELSE rw_total
    /\ alive' = alive \ SeqToSet(readonly)
    /\ inits' = Forget(inits, alive')
    /\ UNCHANGED << readwrite, writeable >>

\* mutant: _readonly is cleared without lowering _ro_total
CloseUnusedBodyKeepsTotal ==
    /\ txn_depth' = IF readwrite # None THEN 0 ELSE txn_depth
    /\ ro_total' = ro_total
    /\ readonly' = << >>
    /\ readwrite' = None
    /\ rw_total' = IF readwrite # None THEN 0 ELSE rw_total
    /\ alive' = (alive \ SeqToSet(readonly)) \ {readwrite}
    /\ writeable' = writeable \ {readwrite}
    /\ inits' = Forget(inits, alive')

\* mutant: _ro_total is reset although read-only connections are borrowed
CloseUnusedBodyForgetsBorrowed ==
    /\ txn_depth' = IF readwrite # None THEN 0 ELSE txn_depth
    /\ ro_total' = 0
    /\ readonly' = << >>
    /\ readwrite' = None
    /\ rw_total' = IF readwrite # None THEN 0 ELSE rw_total
    /\ alive' = (alive \ SeqToSet(readonly)) \ {readwrite}
    /\ writeable' = writeable \ {readwrite}
    /\ inits' = Forget(inits, alive')

\* mutant: the borrowed connections are deleted as well
CloseUnusedBodyClosesBorrowed ==
    /\ txn_depth' = IF readwrite # None THEN 0 ELSE txn_depth
    /\ ro_total' = ro_total - Len(readonly)
    /\ readonly' = << >>
    /\ readwrite' = None
    /\ rw_total' = IF readwrite # None THEN 0 ELSE rw_total
    /\ alive' = {}
    /\ writeable' = {}
    /\ inits' = Forget(inits, alive')

\* pool::_close_unused
CloseUnusedBody ==
    /\ txn_depth' = IF readwrite # None THEN 0 ELSE txn_depth
    /\ ro_total' = ro_total - Len(readonly)
    /\ readonly' = << >>
    /\ readwrite' = None
    /\ rw_total' = IF readwrite # None THEN 0 ELSE rw_total
    /\ alive' = (alive \ SeqToSet(readonly)) \ {readwrite}
    /\ writeable' = writeable \ {readwrite}
    /\ inits' = Forget(inits, alive')

\* pool::close_unused
CloseUnused ==
    /\ Constructed
    /\ CloseUnusedBody
    /\ Done("run", "close_unused", "ok")
    /\ UNCHANGED << dbname, flags, initializer, ro_capacity, out_ro, out_rw,
                    hi_capacity, rw_source, txn >>

\* mutant: close_all does not wait for the borrowed connections
CloseAllNoWait ==
    /\ Constructed
    /\ CloseUnusedBody
    /\ Done("run", "close_all", "ok")
    /\ UNCHANGED << dbname, flags, initializer, ro_capacity, out_ro, out_rw,
                    hi_capacity, rw_source, txn >>

\* pool::close_all up to its wait: _close_unused(), then the predicate
\* `_borrowed_count() == 0`; the second _close_unused() finds nothing idle
CloseAll ==
    /\ Constructed
    /\ CloseUnusedBody
    /\ IF BorrowedCount' = 0
       THEN Done("run", "close_all", "ok")
       ELSE Wait("run", "close")
    /\ UNCHANGED << dbname, flags, initializer, ro_capacity, out_ro, out_rw,
                    hi_capacity, rw_source, txn >>

\* pool::close_all: a call is woken inside `_cond.wait(lock, pred)`, tests
\* the predicate again and, when it holds, runs the second _close_unused()
CloseAllRetry ==
    /\ notified["close"] > 0
    /\ UNCHANGED << dbname, flags, initializer, ro_capacity, out_ro, out_rw,
                    hi_capacity, rw_source, txn >>
    /\ IF BorrowedCount = 0
       THEN /\ CloseUnusedBody
            /\ Done("close", "close_all", "ok")
       ELSE /\ Wait("close", "close")
            /\ UNCHANGED << ro_total, rw_total, readonly, readwrite, alive,
                            writeable, txn_depth, inits >>

\* std::condition_variable::wait may return without a notification
SpuriousWake(k) ==
    /\ waiting[k] > 0
    /\ waiting' = [waiting EXCEPT ![k] = @ - 1]
    /\ notified' = [notified EXCEPT ![k] = @ + 1]
    /\ UNCHANGED << dbname, flags, initializer, inits, ro_capacity,
                    ro_total, rw_total, readonly,
                    readwrite, alive, writeable, out_ro, out_rw, last,
                    hi_capacity, lowered, rw_source, txn, txn_depth >>

\* ------------------------------------------------------------------ Next
Next ==
    \/ Borrow
    \/ TryBorrow
    \/ BorrowRetry
    \/ BorrowWriteable
    \/ TryBorrowWriteable
    \/ BorrowWriteableRetry
    \/ \E c \in ConnIds : ReturnRO(c)
    \/ \E c \in ConnIds : ReturnRW(c)
    \/ \E n \in CapInputs : SetCapacity(n)
    \/ CloseUnused
    \/ CloseAll
    \/ CloseAllRetry
    \/ \E k \in WaitPlaces : SpuriousWake(k)

Spec == Init /\ [][Next]_vars

\* a woken call is eventually scheduled and re-acquires the mutex
Fairness ==
    /\ WF_vars(BorrowRetry)
    /\ WF_vars(BorrowWriteableRetry)
    /\ WF_vars(CloseAllRetry)

FairSpec == Spec /\ Fairness

\* only borrows and returns, on a pool whose capacity is configured up front
NextBorrowReturn ==
    \/ Borrow
    \/ TryBorrow
    \/ BorrowRetry
    \/ BorrowWriteable
    \/ TryBorrowWriteable
    \/ BorrowWriteableRetry
    \/ \E c \in ConnIds : ReturnRO(c)
    \/ \E c \in ConnIds : ReturnRW(c)
    \/ \E k \in WaitPlaces : SpuriousWake(k)

SpecBorrowReturn == InitConfigured /\ [][NextBorrowReturn]_vars

\* every call except set_capacity, with the history of the writeable
\* connection kept
NextWriter ==
    \/ Borrow
    \/ TryBorrow
    \/ BorrowRetry
    \/ BorrowWriteableTracked
    \/ TryBorrowWriteableTracked
    \/ BorrowWriteableRetryTracked
    \/ \E c \in ConnIds : ReturnRO(c)
    \/ \E c \in ConnIds : ReturnRW(c)
    \/ CloseUnused
    \/ CloseAll
    \/ CloseAllRetry
    \/ \E k \in WaitPlaces : SpuriousWake(k)

SpecWriter == InitConfigured /\ [][NextWriter]_vars

\* borrows, returns, close_unused and transactions begun on the pool
NextTransaction ==
    \/ Borrow
    \/ BorrowRetry
    \/ BorrowWriteable
    \/ TryBorrowWriteable
    \/ BorrowWriteableRetry
    \/ \E c \in ConnIds : ReturnRO(c)
    \/ \E c \in ConnIds : ReturnRW(c)
    \/ CloseUnused
    \/ TransactionBegin
    \/ TransactionBeginRetry
    \/ TransactionBegun
    \/ \E commit \in BOOLEAN : TransactionEnd(commit)
    \/ TransactionDestroy
    \/ \E k \in WaitPlaces : SpuriousWake(k)

SpecTransaction == InitConfigured /\ [][NextTransaction]_vars

\* the state after construction and one accepted set_capacity(n), n from 2 to
\* the default capacity
InitCapacitySet ==
    /\ Fresh
    /\ \E n \in 2..(DefaultRoCapacity + 1) : ro_capacity = n - 1
    /\ last = << "set_capacity", "ok" >>

\* read-only borrows and returns only, the environment setting no limit on
\* the connections open at a time
NextReadOnly ==
    \/ BorrowFreely
    \/ TryBorrowFreely
    \/ BorrowRetryFreely
    \/ \E c \in ConnIds : ReturnRO(c)
    \/ SpuriousWake("ro")

SpecReadOnly == InitCapacitySet /\ [][NextReadOnly]_vars

\* borrow(), try_borrow_writeable(), returns, close_unused and on_open
NextOnOpen ==
    \/ Borrow
    \/ BorrowRetry
    \/ TryBorrowWriteable
    \/ \E c \in ConnIds : ReturnRO(c)
    \/ \E c \in ConnIds : ReturnRW(c)
    \/ CloseUnused
    \/ \E init \in InitializerInputs : OnOpen(init)

SpecOnOpen == InitConfigured /\ [][NextOnOpen]_vars

\* arguments of set_capacity at and above the default capacity, over the
\* whole range of `unsigned`: 5, 6, 2^31 - 1, 2^31, 2^31 + 1, UINT_MAX - 1
\* and UINT_MAX
WideInputs ==
    { DefaultRoCapacity + 1, DefaultRoCapacity + 2, IntMax, IntMin,
      IntMin + 1, -2, -1 }

\* pool::set_capacity(newCapacity) on a pool whose capacity is still the
\* one it was constructed with
SetCapacityFirst(newCapacity) ==
    /\ ro_capacity = DefaultRoCapacity
    /\ SetCapacity(newCapacity)

\* read-only borrows and returns, and a first change of the capacity, to any
\* `unsigned` from the default on
NextWide ==
    \/ Borrow
    \/ TryBorrow
    \/ \E c \in ConnIds : ReturnRO(c)
    \/ \E n \in WideInputs : SetCapacityFirst(n)

SpecWide == Init /\ [][NextWide]_vars

TypeOK ==
    /\ dbname \in DbNames
    /\ flags \in PoolFlagChoices \cup FlagInputs
    /\ ro_capacity \in 1..Max(DefaultRoCapacity, MaxCap)
                          \cup { RoCapacityFor(n) : n \in WideInputs }
    /\ ro_total \in 0..(Cardinality(ConnIds) + MaxLive)
    /\ rw_total \in 0..1
    /\ SeqToSet(readonly) \subseteq ConnIds
    /\ readwrite \in ConnIds \cup {None}
    /\ alive \subseteq ConnIds
    /\ writeable \subseteq alive
    /\ waiting \in [WaitPlaces -> 0..MaxWaiting]
    /\ notified \in [WaitPlaces -> 0..MaxWaiting]
    /\ NumBlocked <= MaxWaiting
    /\ hi_capacity \in 0..Max(DefaultRoCapacity, MaxCap)
                          \cup { RoCapacityFor(n) : n \in WideInputs }
    /\ lowered \in BOOLEAN
    /\ rw_source \in {"none", "opened", "recycled"}
    /\ txn \in [pc : {"none", "beginning", "live"}, db : ConnIds \cup {None},
                from_pool : BOOLEAN, local : ConnIds \cup {None}]
    /\ txn_depth \in 0..MaxDepth
    /\ initializer \in InitializerInputs
    /\ inits \in [ConnIds -> {<< >>} \cup { << f >> : f \in InitializerInputs }]

\* ================================================================ claims
\* number of non-empty handles outstanding, read-only plus writeable
Outstanding == BagCardinality(out_ro) + BagCardinality(out_rw)

\* the read-only connections that exist
LiveReadOnly == alive \ writeable

\* the largest _ro_capacity in effect since the first connection was opened
HiCapacity == IF hi_capacity = 0 THEN ro_capacity ELSE hi_capacity

\* C1: at most one non-empty writeable handle is outstanding at any time, and
\* a try_borrow_writeable() made while one is outstanding returns an empty
\* handle and does not wait.
C1_SingleWriter ==
    /\ BagCardinality(out_rw) <= 1
    /\ [][ /\ BagCardinality(out_rw') <= 1
           /\ (out_rw # EmptyBag /\ TryBorrowWriteable)
                => /\ last' = << "try_borrow_writeable", "empty" >>
                   /\ out_rw' = out_rw
                   /\ waiting' = waiting
                   /\ notified' = notified ]_vars

\* a try_borrow_writeable() has just returned empty while a writeable handle
\* is outstanding
C1_Witness ==
    /\ last = << "try_borrow_writeable", "empty" >>
    /\ BagCardinality(out_rw) = 1

\* C2: no connection is held by two outstanding handles, and no connection
\* is both held by a handle and present in the idle store.
C2_NoSharedConnection ==
    \A c \in ConnIds :
        /\ CopiesIn(c, out_ro) + CopiesIn(c, out_rw) <= 1
        /\ (BagIn(c, out_ro) \/ BagIn(c, out_rw))
              => (c \notin SeqToSet(readonly) /\ c # readwrite)

\* a read-only and the writeable handle are out while another connection,
\* returned earlier, is idle and a borrow has just taken one from the store
C2_Witness ==
    /\ out_ro # EmptyBag
    /\ out_rw # EmptyBag
    /\ readonly # << >>
    /\ last = << "borrow", "db" >>

\* C3: borrowed_count() equals the number of non-empty handles outstanding.
C3_BorrowedCountIsOutstanding == BorrowedCount = Outstanding

\* C4: open_count() equals the number of connections created and not yet
\* destroyed.
C4_OpenCountIsAlive == OpenCount = Cardinality(alive)

C6_WithinCapacity == BorrowedCount <= Capacity

\* the pool is full (as many handles out as the capacity) and a try_borrow
\* has just been turned down
C6_Witness ==
    /\ BorrowedCount = Capacity
    /\ Outstanding = Capacity
    /\ last = << "try_borrow", "empty" >>

\* C7: try_borrow() does not wait, and (unless the open it attempts fails) it
\* returns a connection if and only if an idle read-only connection exists or
\* fewer than capacity() - 1 read-only connections are alive at the call.
C7_TryBorrowIffAvailable ==
    [][ (last'[2] \notin Throws /\ TryBorrow)
          => /\ (last'[2] = "db")
                   <=> (HasIdle \/ Cardinality(LiveReadOnly) < Capacity - 1)
             /\ last'[2] \in {"db", "empty"}
             /\ waiting' = waiting ]_vars

\* C8: a call blocked in borrow() at a time when no read-only handle is
\* outstanding eventually leaves borrow() (or another caller borrows first).
C8_BlockedBorrowServed ==
    (Blocked("ro") > 0 /\ out_ro = EmptyBag)
        ~> (Blocked("ro") = 0 \/ out_ro # EmptyBag)

\* C9: a call blocked in borrow_writeable() at a time when no writeable
\* handle is outstanding eventually obtains the connection (or another
\* caller borrows it first).
C9_BlockedWriterServed ==
    (Blocked("rw") > 0 /\ out_rw = EmptyBag)
        ~> (Blocked("rw") = 0 \/ out_rw # EmptyBag)

\* C10: a close_all() waiting at a time when every handle has been returned
\* eventually returns (or a caller borrows again first).
C10_CloseAllReturns ==
    (Blocked("close") > 0 /\ Outstanding = 0)
        ~> (Blocked("close") = 0 \/ Outstanding > 0)

\* C11: in the state in which a close_all() has just returned no handle is
\* outstanding, borrowed_count() and open_count() are 0, and no connection
\* the pool created is alive.
C11_CloseAllLeavesNothing ==
    last = << "close_all", "ok" >>
        => /\ Outstanding = 0
           /\ BorrowedCount = 0
           /\ OpenCount = 0
           /\ alive = {}

\* a close_all() has returned on a pool that had opened connections
C11_Witness ==
    /\ last = << "close_all", "ok" >>
    /\ hi_capacity > 0

\* C12: a set_capacity that destroys idle read-only connections lowers
\* open_count() by exactly the number it destroyed, and the return of a
\* borrowed connection that is destroyed instead of recycled lowers
\* open_count() by one.
C12_OpenCountFollowsPruning ==
    [][ /\ (Len(readonly') < Len(readonly) /\ \E n \in CapInputs : SetCapacity(n))
            => OpenCount' = OpenCount - (Len(readonly) - Len(readonly'))
        /\ (Cardinality(alive') < Cardinality(alive)
              /\ \E c \in ConnIds : ReturnRO(c))
            => OpenCount' = OpenCount - 1 ]_vars

\* C13: when a set_capacity has lowered the capacity and every handle that
\* was outstanding has since been returned, with no other call completed in
\* between, open_count() <= capacity().
C13_ConvergesToCapacity ==
    (lowered /\ Outstanding = 0) => OpenCount <= Capacity

\* C14 as stated: once a writeable connection has been handed out, every later
\* call that obtains a writeable handle gets a connection that existed before
\* the call and opens none.
C14_NeverRecreated ==
    [][ (rw_source # "none" /\ WriteableHandedOut)
          => /\ HandedOut \in writeable
             /\ alive' = alive
             /\ rw_source' = "recycled" ]_vars

\* C14 amended: while the writeable connection exists, a call that obtains a
\* writeable handle gets that connection and opens none; when none exists
\* (never created, or destroyed while idle by close_unused or close_all) the
\* call opens a new one.
C14_RecycledWhileAlive ==
    [][ WriteableHandedOut
          => IF writeable # {}
             THEN /\ HandedOut \in writeable
                  /\ alive' = alive
                  /\ rw_source' = "recycled"
             ELSE /\ HandedOut \notin alive
                  /\ alive' = alive \cup {HandedOut}
                  /\ rw_source' = "opened" ]_vars

\* a borrow_writeable has just been handed the existing writeable connection
\* without an open
C14_Witness ==
    /\ rw_source = "recycled"
    /\ last = << "borrow_writeable", "db" >>
    /\ out_rw # EmptyBag

\* C15: in every reachable state rw_total is 0 or 1 and at most one
\* writeable connection created by the pool is alive, idle or borrowed.
C15_OneWriteableConnection ==
    /\ rw_total \in {0, 1}
    /\ Cardinality(writeable) <= 1
    /\ Cardinality(writeable) = rw_total

\* a close_unused has run while the writeable connection was borrowed and
\* has left it counted
C15_Witness ==
    /\ last = << "close_unused", "ok" >>
    /\ out_rw # EmptyBag
    /\ rw_total = 1
    /\ Cardinality(writeable) = 1

\* every read-only connection the pool created is borrowed: the borrows so
\* far were successive, with no return in between
AllBorrowed == readonly = << >> /\ ro_total = BagCardinality(out_ro)

\* the borrow() of this step threw because its open failed
BorrowErrored ==
    last'[1] = "borrow" /\ last'[2] \in Throws /\ waiting' = waiting

\* C16 as stated: with the capacity set to 4, each of four successive
\* borrow() calls succeeds without blocking (unless its open fails), and a
\* fifth try_borrow() returns an empty handle.
C16_FourBorrowsAtCapacityFour ==
    [][ (Capacity = 4 /\ AllBorrowed)
          => /\ (BagCardinality(out_ro) < 4 /\ BorrowFreely /\ ~BorrowErrored)
                  => /\ BagCardinality(out_ro') = BagCardinality(out_ro) + 1
                     /\ waiting' = waiting
             /\ (BagCardinality(out_ro) = 4 /\ TryBorrowFreely)
                  => /\ last' = << "try_borrow", "empty" >>
                     /\ out_ro' = out_ro ]_vars

\* C16 amended: with the capacity set to n, each of n - 1 successive borrow()
\* calls succeeds without blocking (unless its open fails); after them a
\* try_borrow() returns an empty handle and a borrow() blocks.
C16_BorrowsUpToReadOnlyCapacity ==
    [][ AllBorrowed
          => /\ (BagCardinality(out_ro) < Capacity - 1 /\ BorrowFreely
                   /\ ~BorrowErrored)
                  => /\ BagCardinality(out_ro') = BagCardinality(out_ro) + 1
                     /\ waiting' = waiting
                     /\ last' = << "borrow", "db" >>
             /\ (BagCardinality(out_ro) = Capacity - 1 /\ TryBorrowFreely)
                  => /\ last' = << "try_borrow", "empty" >>
                     /\ out_ro' = out_ro
             /\ (BagCardinality(out_ro) = Capacity - 1 /\ BorrowFreely)
                  => /\ waiting'["ro"] = waiting["ro"] + 1
                     /\ out_ro' = out_ro ]_vars

\* at the default capacity 5 four borrows are out, none was returned, and a
\* fifth try_borrow has just returned empty
C16_Witness ==
    /\ Capacity = DefaultRoCapacity + 1
    /\ AllBorrowed
    /\ BagCardinality(out_ro) = 4
    /\ last = << "try_borrow", "empty" >>

\* a step in which a connection is created and kept
ConnectionCreated == alive' \ alive # {}

\* the connection created in this step
Created == CHOOSE c \in alive' \ alive : TRUE

TxnActive == txn.pc = "live" /\ txn.db # None

\* the transaction ends in this step: commit, rollback or destruction
TxnEnds == (\E commit \in BOOLEAN : TransactionEnd(commit)) \/ TransactionDestroy

\* C18: while a transaction begun on the pool is active the writeable
\* connection is borrowed (held by the transaction, not idle, counted by
\* borrowed_count()) and try_borrow_writeable() returns empty; the end of the
\* transaction returns the connection and lowers borrowed_count() by exactly
\* one, and commit, rollback or destruction of a transaction that is no
\* longer active returns nothing.
C18_TransactionHoldsWriter ==
    [][ /\ TxnActive'
            => /\ BagIn(txn'.db, out_rw')
               /\ readwrite' = None
               /\ BorrowedCount' >= 1
        /\ (TxnActive /\ TryBorrowWriteable)
            => /\ last' = << "try_borrow_writeable", "empty" >>
               /\ out_rw' = out_rw
        /\ (TxnActive /\ TxnEnds)
            => /\ BorrowedCount' = BorrowedCount - 1
               /\ readwrite' = txn.db
               /\ out_rw' = EmptyBag
               /\ ~TxnActive'
        /\ (~TxnActive /\ TxnEnds)
            => /\ BorrowedCount' = BorrowedCount
               /\ readwrite' = readwrite
               /\ out_rw' = out_rw ]_vars

\* a transaction begun on the pool has been committed while read-only
\* handles are out: its connection is idle in the pool again
C18_Witness ==
    /\ last = << "commit", "ok" >>
    /\ txn.pc = "live"
    /\ txn.db = None
    /\ readwrite # None
    /\ out_rw = EmptyBag
    /\ out_ro # EmptyBag

\* the four borrow methods of the pool
BorrowOps ==
    {"borrow", "try_borrow", "borrow_writeable", "try_borrow_writeable"}

\* C19: a pool just constructed has opened no connection (open_count() and
\* borrowed_count() are 0), and a connection comes into existence only in a
\* step of borrow, try_borrow, borrow_writeable or try_borrow_writeable that
\* returns it.
C19_ConstructionOpensNothing ==
    /\ (OpenCount = 0 /\ BorrowedCount = 0 /\ alive = {})
    /\ [][ ConnectionCreated
             => /\ last'[1] \in BorrowOps
                /\ last'[2] = "db"
                /\ (BagIn(Created, out_ro') \/ BagIn(Created, out_rw'))
                /\ OpenCount' = OpenCount + 1 ]_vars

\* the first connection of the pool exists, opened by a borrow() that has
\* just returned it
C19_Witness ==
    /\ last = << "borrow", "db" >>
    /\ Cardinality(alive) = 1
    /\ OpenCount = 1
    /\ BagCardinality(out_ro) = 1
    /\ hi_capacity = DefaultRoCapacity

\* C20 as stated: the memory flag, the temporary flag or an empty path make
\* the construction fail, and nothing is opened.
C20_RejectedAtConstruction ==
    ("memory" \in flags \/ "temporary" \in flags \/ dbname = "")
        => (~Constructed /\ alive = {} /\ hi_capacity = 0)

\* C20 amended: the memory flag or the temporary flag make the construction
\* fail, and nothing is opened; an empty path is accepted by the constructor,
\* every borrow method of such a pool throws, and it never holds a connection.
C20_FlagsRejectedPathDeferred ==
    /\ ("memory" \in flags \/ "temporary" \in flags)
          => (~Constructed /\ alive = {} /\ hi_capacity = 0)
    /\ (Constructed /\ dbname = "")
          => /\ alive = {}
             /\ hi_capacity = 0
             /\ (last[1] \in BorrowOps
                   => last[2] \in {"invalid_argument", "logic_error"})

\* a pool was constructed with an empty path and writeable flags, and its
\* borrow() has just thrown
C20_Witness ==
    /\ dbname = ""
    /\ "readwrite" \in flags
    /\ last = << "borrow", "invalid_argument" >>
    /\ alive = {}

\* C21: set_capacity(n) with n < 2 throws and leaves capacity(), open_count(),
\* borrowed_count() and the idle connections as they were; set_capacity(n)
\* with n >= 2 makes capacity() return n; capacity() is 5 after construction
\* and no call other than set_capacity changes it.
C21_SetCapacityContract ==
    /\ Capacity = 5
    /\ [][ /\ (/\ last'[1] = "set_capacity"
               /\ \E n \in { m \in CapInputs : m < 2 } : SetCapacity(n))
                => /\ last' = << "set_capacity", "invalid_argument" >>
                   /\ Capacity' = Capacity
                   /\ OpenCount' = OpenCount
                   /\ BorrowedCount' = BorrowedCount
                   /\ readonly' = readonly
                   /\ readwrite' = readwrite
                   /\ alive' = alive
           /\ \A n \in { m \in CapInputs : m >= 2 } :
                (last'[1] = "set_capacity" /\ SetCapacity(n))
                    => /\ Capacity' = n
                       /\ last' = << "set_capacity", "ok" >>
           /\ Capacity' # Capacity
                => \E n \in CapInputs : SetCapacity(n) ]_vars

\* a set_capacity below 2 has just been rejected on a pool that holds idle
\* connections of both kinds and whose capacity was changed before
C21_Witness ==
    /\ last = << "set_capacity", "invalid_argument" >>
    /\ readonly # << >>
    /\ readwrite # None
    /\ Capacity = 3

\* C22: on a pool constructed without the readwrite flag, borrow_writeable()
\* and try_borrow_writeable() throw a logic error at once: the call does not
\* wait, opens no connection and leaves open_count() and borrowed_count() as
\* they were; such a pool never has a writeable connection.
C22_ReadOnlyPoolRefusesWriter ==
    /\ (Constructed /\ "readwrite" \notin flags)
          => (rw_total = 0 /\ writeable = {} /\ out_rw = EmptyBag)
    /\ [][ ("readwrite" \notin flags /\ (BorrowWriteable \/ TryBorrowWriteable))
             => /\ last' \in { << "borrow_writeable", "logic_error" >>,
                               << "try_borrow_writeable", "logic_error" >> }
                /\ waiting' = waiting
                /\ notified' = notified
                /\ alive' = alive
                /\ hi_capacity' = hi_capacity
                /\ OpenCount' = OpenCount
                /\ BorrowedCount' = BorrowedCount ]_vars

\* a try_borrow_writeable() has just thrown the logic error on a pool without
\* the readwrite flag, while a read-only handle is out
C22_Witness ==
    /\ "readwrite" \notin flags
    /\ last = << "try_borrow_writeable", "logic_error" >>
    /\ out_ro # EmptyBag

\* a step of borrow_writeable() or try_borrow_writeable() made as a new call
WriterCalled == BorrowWriteable \/ TryBorrowWriteable

\* C23: when the first writeable open yields a connection that is not
\* writeable, borrow_writeable()/try_borrow_writeable() throws the locked
\* error, the connection is destroyed and not kept, _rw_total stays 0 and
\* open_count() is unchanged; while _rw_total is 0 a writeable borrow opens a
\* connection afresh (it returns the new connection or throws, and never waits
\* nor returns empty).
C23_UnwritableOpenDiscarded ==
    [][ /\ (last'[2] = "locked" /\ WriterCalled)
            => /\ rw_total = 0
               /\ rw_total' = 0
               /\ alive' = alive
               /\ writeable' = writeable
               /\ readwrite' = None
               /\ out_rw' = out_rw
               /\ OpenCount' = OpenCount
               /\ BorrowedCount' = BorrowedCount
               /\ waiting' = waiting
        /\ (last[2] = "locked" /\ last[1] \in BorrowOps
              /\ WriteableConfigured /\ WriterCalled)
            => /\ last'[2] \in {"db", "locked"} \cup Throws
               /\ waiting' = waiting
               /\ last'[2] = "db" => (ConnectionCreated /\ Created \in writeable')
      ]_vars

\* a borrow_writeable() has just thrown the locked error while read-only
\* connections exist
C23_Witness ==
    /\ last = << "borrow_writeable", "locked" >>
    /\ rw_total = 0
    /\ ro_total > 0

\* a step of one of the borrow methods, made as a new call or by a woken
\* borrow()
BorrowCalled == Borrow \/ TryBorrow \/ BorrowRetry \/ WriterCalled

Idle == SeqToSet(readonly) \cup ({readwrite} \ {None})

\* C25: close_unused() destroys every idle connection, read-only and
\* writeable, and nothing else: after it no connection is idle, open_count()
\* equals borrowed_count(), and borrowed_count() and the outstanding handles
\* are as before the call.
C25_CloseUnusedFrame ==
    [][ CloseUnused
          => /\ readonly' = << >>
             /\ readwrite' = None
             /\ alive' = alive \ Idle
             /\ OpenCount' = BorrowedCount'
             /\ BorrowedCount' = BorrowedCount
             /\ out_ro' = out_ro
             /\ out_rw' = out_rw
             /\ ro_capacity' = ro_capacity
             /\ waiting' = waiting
             /\ notified' = notified ]_vars

\* a close_unused() has just returned on a pool that keeps a read-only and
\* the writeable handle out, and nothing else
C25_Witness ==
    /\ last = << "close_unused", "ok" >>
    /\ out_ro # EmptyBag
    /\ out_rw # EmptyBag
    /\ Cardinality(alive) = 2
    /\ hi_capacity > 0
    /\ OpenCount = 2

\* C26: on a pool constructed with delete_first the first open honours the
\* flag whichever borrow method makes it: while the flag is pending, borrow,
\* try_borrow, borrow_writeable and try_borrow_writeable open with flags that
\* database::open accepts (the call returns the connection unless the open
\* itself fails), and once a connection has been opened the flag is gone, so
\* that no later open deletes the file.
C26_DeleteFirstAtFirstOpen ==
    [][ /\ ("delete_first" \in flags /\ dbname # "" /\ BorrowCalled)
            => /\ last'[2] \in {"db", "locked", "error"}
               /\ waiting' = waiting
        /\ ConnectionCreated => "delete_first" \notin flags' ]_vars

\* a writeable connection is returned to the pool in this step
WriteableReturned == BagCardinality(out_rw') < BagCardinality(out_rw)

C28_SetCapacityIdempotent ==
    [][ \A n \in CapInputs :
          (/\ last = << "set_capacity", "ok" >>
           /\ ro_capacity = RoCapacityFor(n)
           /\ SetCapacity(n))
            => /\ readonly' = readonly
               /\ alive' = alive
               /\ OpenCount' = OpenCount
               /\ BorrowedCount' = BorrowedCount ]_vars

\* C29: a call blocked in borrow() when a set_capacity has just raised the
\* capacity above the read-only connections created eventually leaves
\* borrow() (or another caller takes the room first), whether or not a handle
\* is returned.
C29_RaisedCapacityServesBlocked ==
    (Blocked("ro") > 0 /\ CanCreateRO /\ last = << "set_capacity", "ok" >>)
        ~> (Blocked("ro") = 0 \/ ~CanCreateRO)

\* the read-only handle of connection c is returned in this step
ReadOnlyReturned(c) ==
    /\ BagIn(c, out_ro)
    /\ out_ro' = out_ro (-) SetToBag({c})

Held(c) == BagIn(c, out_ro) \/ BagIn(c, out_rw)

\* C31: no connection is destroyed while a handle to it is outstanding:
\* set_capacity, close_unused and close_all destroy only idle connections,
\* every other destroyed connection is either idle or the read-only
\* connection whose handle is being returned in that step, and the
\* connection of every outstanding handle is alive.
C31_NoPreemption ==
    [][ /\ \A c \in alive \ alive' :
              IF last'[1] \in {"set_capacity", "close_unused", "close_all"}
              THEN c \in Idle /\ ~Held(c)
              ELSE c \in Idle \/ ReadOnlyReturned(c)
        /\ \A c \in ConnIds :
              (BagIn(c, out_ro') \/ BagIn(c, out_rw')) => c \in alive' ]_vars

\* a set_capacity has destroyed idle connections (the read-only total still
\* counts one that is neither idle nor borrowed) while handles of both kinds
\* were outstanding, and their connections are alive
C31_Witness ==
    /\ last = << "set_capacity", "ok" >>
    /\ out_ro # EmptyBag
    /\ out_rw # EmptyBag
    /\ readonly = << >>
    /\ ro_total > BagCardinality(out_ro)
    /\ \A c \in ConnIds : Held(c) => c \in alive

\* the writeable handle of connection c is returned in this step
WriteableReturnedOf(c) ==
    /\ BagIn(c, out_rw)
    /\ out_rw' = out_rw (-) SetToBag({c})

\* C32: the state assertions of the handle deleters hold on every return:
\* when a read-only handle is returned _readonly holds fewer than _ro_total
\* connections, when a writeable handle is returned _rw_total is 1 and no
\* idle writeable connection is present; and _readonly never holds more than
\* _ro_total connections.
C32_DeleterAssertions ==
    /\ Len(readonly) <= ro_total
    /\ [][ /\ Len(readonly') <= ro_total'
           /\ \A c \in ConnIds :
                 /\ ReadOnlyReturned(c) => Len(readonly) < ro_total
                 /\ WriteableReturnedOf(c)
                       => (rw_total = 1 /\ readwrite = None) ]_vars

\* the writeable handle has just been returned and read-only connections are
\* idle, on a pool where set_capacity destroyed an idle connection before
\* (the read-only total counts one that is neither idle nor borrowed)
C32_Witness ==
    /\ last = << "return_writeable", "ok" >>
    /\ readwrite # None
    /\ readonly # << >>
    /\ ro_total > Len(readonly) + BagCardinality(out_ro)

\* a handle to connection c is obtained in this step
HandleObtained(c) ==
    CopiesIn(c, out_ro') + CopiesIn(c, out_rw')
        > CopiesIn(c, out_ro) + CopiesIn(c, out_rw)

\* C33: the initializer registered with on_open is invoked exactly once on
\* each connection the pool creates after the registration, before that
\* connection is first handed out, and is not invoked again when an idle
\* connection is borrowed again: a connection has, when the call that created
\* it hands it out, exactly one invocation, of the initializer registered at
\* that time (none if there was none), and no later step adds another.
C33_InitializedOnce ==
    [][ \A c \in alive' :
          IF c \in alive
          THEN inits'[c] = inits[c]
          ELSE /\ inits'[c] = IF initializer = NoInitializer THEN << >>
                              ELSE << initializer >>
               /\ HandleObtained(c) ]_vars

\* a connection created while "g" was registered, returned and now borrowed
\* again after on_open registered "f", next to one created under "f"
C33_Witness ==
    /\ last = << "borrow", "db" >>
    /\ initializer = "f"
    /\ \E c \in alive : inits[c] = << "g" >> /\ BagIn(c, out_ro)
    /\ \E c \in alive : inits[c] = << "f" >>

\* a read-only handle to connection c is obtained in this step
ReadOnlyObtained(c) == CopiesIn(c, out_ro') > CopiesIn(c, out_ro)

\* C34: borrow() and try_borrow() hand out idle read-only connections in LIFO
\* order and create a connection only when none is idle.  _readonly keeps
\* the idle connections in the order of their return (a step either appends
\* the connection being returned or removes connections from the back); a
\* borrow that finds idle connections hands out the last of them, the one
\* most recently returned, and creates nothing; a borrow creates a
\* connection only when _readonly is empty.
C34_LifoBorrow ==
    [][ /\ \/ \E k \in 0..Len(readonly) : readonly' = SubSeq(readonly, 1, k)
           \/ \E c \in ConnIds :
                 ReadOnlyReturned(c) /\ readonly' = Append(readonly, c)
        /\ \A c \in ConnIds :
              ReadOnlyObtained(c) =>
                  IF readonly # << >>
                  THEN /\ c = readonly[Len(readonly)]
                       /\ readonly' = SubSeq(readonly, 1, Len(readonly) - 1)
                       /\ alive' = alive
                  ELSE c \in alive' \ alive ]_vars

\* a try_borrow() has just handed out the most recently returned of several
\* idle read-only connections: an older one is still idle
C34_Witness ==
    /\ last = << "try_borrow", "db" >>
    /\ readonly # << >>
    /\ BagCardinality(out_ro) = 1
    /\ ro_total = Len(readonly) + 1

\* C35: on a pool whose capacity has not been changed before, set_capacity(n)
\* with n >= capacity() destroys no idle connection and leaves open_count()
\* unchanged, for every unsigned 32-bit value of n, those above 2^31 included.
C35_RaisingKeepsIdle ==
    [][ \A n \in WideInputs :
          SetCapacityFirst(n)
              => /\ last' = << "set_capacity", "ok" >>
                 /\ readonly' = readonly
                 /\ alive' = alive
                 /\ OpenCount' = OpenCount ]_vars

====
